---- MODULE Spec2Model ----
(***************************************************************************)
(* Model of src/tools.py: the four tool functions of the Hyderabad day     *)
(* planner (search_restaurants, search_movies, search_places,              *)
(* get_travel_info) and the dispatcher execute_tool.                       *)
(*                                                                         *)
(* The program keeps no state between calls.  The state of the model is    *)
(* the two credentials read at import time and the last dispatcher call:   *)
(* its arguments, the answer of the remote source, the tool function the   *)
(* dispatcher called, and what the dispatcher gave back.                   *)
(*                                                                         *)
(* Python values are modelled as follows.                                  *)
(*   - a list is a sequence, a dict is a record;                           *)
(*   - a str that the code only copies is a TLA+ string; a str that the    *)
(*     code inspects (a place name) is a sequence of one-character strings;*)
(*   - a float with one decimal (distance_km) is kept in tenths;           *)
(*   - `x <= budget * 0.5' is 2*x <= budget, `x > budget * 0.45' is        *)
(*     100*x > 45*budget and `x <= budget * 0.15' is 100*x <= 15*budget:   *)
(*     for integer budgets and the costs and fees of the tables the two    *)
(*     sides never differ by less than 0.05, so the double rounding of the *)
(*     product cannot change the comparison;                               *)
(*   - the outcome of a call is [kind |-> "return", ...] or                *)
(*     [kind |-> "raise", exc |-> <exception class>].                      *)
(***************************************************************************)
EXTENDS Integers, Sequences, FiniteSets, TLC

VARIABLES
  GOOGLE_API_KEY,  \* TRUE iff the environment gave a non-empty GOOGLE_API_KEY
  SERPAPI_KEY,     \* TRUE iff the environment gave a non-empty SERPAPI_KEY
  pc,              \* "idle" before the first call, "returned" after a call
  tool_name,       \* first argument of the last execute_tool call
  tool_input,      \* second argument of the last execute_tool call
  response,        \* what the remote source answered (used only with a key)
  invoked,         \* the tool function execute_tool called, "" when none
  outcome,         \* what that tool function did: returned or raised
  raised,          \* TRUE iff an exception left execute_tool
  payload          \* the string execute_tool returned

vars == <<GOOGLE_API_KEY, SERPAPI_KEY, pc, tool_name, tool_input, response,
          invoked, outcome, raised, payload>>

(***************************************************************************)
(* Bounds of the model.                                                    *)
(***************************************************************************)
BudgetStep == 150         \* budgets are multiples of this
MaxBudgetK == 18          \* largest budget: MaxBudgetK * BudgetStep
MaxFeeBudgetK == 3        \* largest max_entry_fee: MaxFeeBudgetK * BudgetStep
MaxLimit == 3             \* explicit limits range over 0 .. MaxLimit
MaxRestaurants == 3       \* places in a restaurant response
MaxShowtimes == 2         \* entries in a showtimes response
MaxAttractions == 2       \* places in an attraction response
MaxMetresOffset == 120    \* distances: 0 .. this, and 10000 .. 10000 + this

(***************************************************************************)
(* Python helpers.                                                         *)
(***************************************************************************)
Min(a, b) == IF a < b THEN a ELSE b
Max(a, b) == IF a > b THEN a ELSE b

\* xs[:n] of Python: a negative n counts from the end.
PySlice(xs, n) ==
  IF n >= 0 THEN SubSeq(xs, 1, Min(n, Len(xs)))
  ELSE SubSeq(xs, 1, Max(0, Len(xs) + n))

Return(type, value) == [kind |-> "return", type |-> type, value |-> value]
Raise(exc) == [kind |-> "raise", exc |-> exc]

\* All sequences over S of length 0 .. n.
SeqsUpTo(S, n) == UNION {[1..k -> S] : k \in 0..n}

(***************************************************************************)
(* 1. RESTAURANTS                                                          *)
(***************************************************************************)
\* cost_map.get(price_level, 350)
cost_map_get(price_level) ==
  CASE price_level = 1 -> 150
    [] price_level = 2 -> 350
    [] price_level = 3 -> 600
    [] price_level = 4 -> 1200
    [] OTHER -> 350

all_restaurants ==
  << [name |-> "Paradise Biryani",          rating_x10 |-> 44, estimated_cost |-> 320],
     [name |-> "Bawarchi Restaurant",       rating_x10 |-> 43, estimated_cost |-> 280],
     [name |-> "Rayalaseema Ruchulu",       rating_x10 |-> 42, estimated_cost |-> 350],
     [name |-> "AB's - Absolute Barbecues", rating_x10 |-> 45, estimated_cost |-> 700],
     [name |-> "Ohri's Jiva Imperia",       rating_x10 |-> 41, estimated_cost |-> 600],
     [name |-> "Shah Ghouse Cafe",          rating_x10 |-> 45, estimated_cost |-> 200],
     [name |-> "Chutneys",                  rating_x10 |-> 43, estimated_cost |-> 250] >>

\* r["estimated_cost"] <= budget * 0.5
WithinMockRestaurantBudget(r, budget) == 2 * r.estimated_cost <= budget

_mock_restaurants(budget) ==
  LET Keep(r) == WithinMockRestaurantBudget(r, budget)
  IN  PySlice(SelectSeq(all_restaurants, Keep), 4)

\* Mutant: the threshold of the mock list, 0.5.
TooPricey_Half(est_cost, max_budget_per_person) ==
  100 * est_cost > 50 * max_budget_per_person

\* est_cost > max_budget_per_person * 0.45
TooPricey(est_cost, max_budget_per_person) ==
  100 * est_cost > 45 * max_budget_per_person

\* p.get("price_level", 2)
price_level_of(p) == IF p.has_price_level THEN p.price_level ELSE 2

\* The record the loop appends for place p.
RestaurantEntry(p) ==
  [place_id       |-> p.place_id,
   price_level    |-> price_level_of(p),
   estimated_cost |-> cost_map_get(price_level_of(p))]

\* The places the loop looks at: data.get("results", [])[:limit]
RestaurantCandidates(results, limit) == PySlice(results, limit)

\* The loop of search_restaurants over the decoded places.
LiveRestaurants(results, max_budget_per_person, limit) ==
  LET Keep(p) == ~TooPricey(cost_map_get(price_level_of(p)), max_budget_per_person)
      kept == SelectSeq(RestaurantCandidates(results, limit), Keep)
  IN  [i \in 1..Len(kept) |-> RestaurantEntry(kept[i])]

\* data.get("results", []) of a decoded body
ResultsOf(resp) == IF resp.results_kind = "absent" THEN <<>> ELSE resp.results

\* The exception of the request and of the decoding of the body, "" when the
\* body decodes to a JSON object.
RemoteFailure(resp) ==
  CASE resp.status = "timeout"     -> "TimeoutException"  \* client.get raises
    [] resp.status = "undecodable" -> "JSONDecodeError"   \* r.json() raises
    [] resp.status = "not_object"  -> "AttributeError"    \* data.get on a list
    [] OTHER -> ""

search_restaurants(input, resp) ==
  IF input.shape # "ok" \/ ~input.has_budget
    THEN Raise("TypeError")               \* the call cannot bind its arguments
  ELSE
    LET budget == input.budget
        limit  == IF input.has_limit THEN input.limit ELSE 5
    IN
    IF ~GOOGLE_API_KEY THEN
      IF input.budget_type # "int" THEN Raise("TypeError")
      ELSE Return("list", _mock_restaurants(budget))
    ELSE IF RemoteFailure(resp) # "" THEN Raise(RemoteFailure(resp))
    ELSE IF resp.results_kind = "null" THEN Raise("TypeError")  \* None[:limit]
    ELSE IF input.budget_type # "int" THEN Raise("TypeError")   \* str * 0.45
    ELSE
      LET results == LiveRestaurants(ResultsOf(resp), budget, limit)
      IN  IF results # <<>> THEN Return("list", results)
          ELSE Return("list", _mock_restaurants(budget))

(***************************************************************************)
(* 2. MOVIES                                                               *)
(***************************************************************************)
_estimate_ticket_price(max_price) ==
  IF max_price >= 400 THEN 350
  ELSE IF max_price >= 250 THEN 220
  ELSE 150

movies ==
  << [title |-> "Check BookMyShow for Latest Shows", genre |-> "Action",
      ticket_price |-> 300],
     [title |-> "PVR Inorbit - Current Blockbuster", genre |-> "Thriller",
      ticket_price |-> 350],
     [title |-> "INOX GVK One - Matinee Show",       genre |-> "Comedy",
      ticket_price |-> 200] >>

_mock_movies(budget) ==
  LET Keep(m) == m.ticket_price <= budget
  IN  PySlice(SelectSeq(movies, Keep), 3)

\* The record the loop appends for showtime m.
MovieEntry(m, max_ticket_price) ==
  [title        |-> IF m.has_name THEN m.name ELSE "Unknown",
   theatre      |-> "PVR / INOX / AMB Cinemas",
   ticket_price |-> _estimate_ticket_price(max_ticket_price)]

LiveMovies(showtimes, max_ticket_price, limit) ==
  LET seen == PySlice(showtimes, limit)
  IN  [i \in 1..Len(seen) |-> MovieEntry(seen[i], max_ticket_price)]

search_movies(input, resp) ==
  IF input.shape # "ok" THEN Raise("TypeError")
  ELSE
    LET max_ticket_price == IF input.has_budget THEN input.budget ELSE 400
        budget_is_int    == ~input.has_budget \/ input.budget_type = "int"
        limit            == IF input.has_limit THEN input.limit ELSE 5
    IN
    IF ~SERPAPI_KEY THEN
      IF ~budget_is_int THEN Raise("TypeError")
      ELSE Return("list", _mock_movies(max_ticket_price))
    ELSE IF RemoteFailure(resp) # "" THEN Raise(RemoteFailure(resp))
    ELSE IF resp.results_kind = "null" THEN Raise("TypeError")
    ELSE IF ~budget_is_int THEN Raise("TypeError")  \* str >= 400, 300 <= str
    ELSE
      LET results == LiveMovies(ResultsOf(resp), max_ticket_price, limit)
      IN  IF results # <<>> THEN Return("list", results)
          ELSE Return("list", _mock_movies(max_ticket_price))

(***************************************************************************)
(* 3. PLACES / ATTRACTIONS                                                 *)
(***************************************************************************)
UpperCase == <<"A","B","C","D","E","F","G","H","I","J","K","L","M",
               "N","O","P","Q","R","S","T","U","V","W","X","Y","Z">>
LowerCase == <<"a","b","c","d","e","f","g","h","i","j","k","l","m",
               "n","o","p","q","r","s","t","u","v","w","x","y","z">>

\* str.lower() and str.upper(), character by character.
LowerChar(c) ==
  IF \E i \in 1..Len(UpperCase) : UpperCase[i] = c
    THEN LowerCase[CHOOSE i \in 1..Len(UpperCase) : UpperCase[i] = c]
    ELSE c
UpperChar(c) ==
  IF \E i \in 1..Len(LowerCase) : LowerCase[i] = c
    THEN UpperCase[CHOOSE i \in 1..Len(LowerCase) : LowerCase[i] = c]
    ELSE c
lower(s) == [i \in 1..Len(s) |-> LowerChar(s[i])]
upper(s) == [i \in 1..Len(s) |-> UpperChar(s[i])]

\* `k in s' of Python for two strings.
Contains(s, k) ==
  \E i \in 1..(Len(s) - Len(k) + 1) : SubSeq(s, i, i + Len(k) - 1) = k

\* fee_map, in the order of the dict literal (the order .items() yields).
fee_map ==
  <<
     [key |-> <<"g","o","l","c","o","n","d","a">>,
      fee |-> 35],
     [key |-> <<"c","h","a","r","m","i","n","a","r">>,
      fee |-> 25],
     [key |-> <<"r","a","m","o","j","i">>,
      fee |-> 1150],
     [key |-> <<"b","i","r","l","a">>,
      fee |-> 0],
     [key |-> <<"h","u","s","s","a","i","n"," ","s","a","g","a","r">>,
      fee |-> 0],
     [key |-> <<"l","u","m","b","i","n","i">>,
      fee |-> 50],
     [key |-> <<"n","e","h","r","u"," ","z","o","o">>,
      fee |-> 80],
     [key |-> <<"s","a","l","a","r"," ","j","u","n","g">>,
      fee |-> 20],
     [key |-> <<"q","u","t","b"," ","s","h","a","h","i">>,
      fee |-> 15],
     [key |-> <<"s","n","o","w"," ","w","o","r","l","d">>,
      fee |-> 799],
     [key |-> <<"w","o","n","d","e","r","l","a">>,
      fee |-> 999] >>

\* The index of the first key of fee_map contained in name_lower, 0 when none.
FirstMatch(name_lower) ==
  IF \E i \in 1..Len(fee_map) : Contains(name_lower, fee_map[i].key)
    THEN CHOOSE i \in 1..Len(fee_map) :
           /\ Contains(name_lower, fee_map[i].key)
           /\ \A j \in 1..(i - 1) : ~Contains(name_lower, fee_map[j].key)
    ELSE 0

_estimate_entry_fee(name) ==
  LET name_lower == lower(name)
  IN  IF FirstMatch(name_lower) # 0 THEN fee_map[FirstMatch(name_lower)].fee
      ELSE 50

all_places ==
  << [name |-> "Hussain Sagar Lake & Tank Bund", entry_fee |-> 0,
      visit_duration_mins |-> 60],
     [name |-> "Golconda Fort", entry_fee |-> 35, visit_duration_mins |-> 90],
     [name |-> "Charminar",     entry_fee |-> 25, visit_duration_mins |-> 60],
     [name |-> "Lumbini Park",  entry_fee |-> 50, visit_duration_mins |-> 60],
     [name |-> "Birla Mandir",  entry_fee |-> 0,  visit_duration_mins |-> 45],
     [name |-> "Inorbit Mall",  entry_fee |-> 0,  visit_duration_mins |-> 120] >>

\* Mutant: a threshold of 0.2.
WithinMockPlaceBudget_Fifth(p, budget) == 100 * p.entry_fee <= 20 * budget

\* p["entry_fee"] <= budget * 0.15
WithinMockPlaceBudget(p, budget) == 100 * p.entry_fee <= 15 * budget

_mock_places(budget) ==
  LET Keep(p) == WithinMockPlaceBudget(p, budget)
  IN  PySlice(SelectSeq(all_places, Keep), 4)

\* A place of the source carries "name": a string, "name": null, or no name.
\* p.get("name", "") is the name, None, or "".  None.lower() raises.
NameRaises(p) == p.name_kind = "null"
name_or_default(p) == IF p.name_kind = "str" THEN p.name ELSE <<>>

\* The record the loop appends for place p (p.get("name") is None without a
\* string name).
PlaceEntry(p) ==
  [name_kind |-> IF p.name_kind = "str" THEN "str" ELSE "null",
   name      |-> name_or_default(p),
   entry_fee |-> _estimate_entry_fee(name_or_default(p)),
   visit_duration_mins |-> 60]

search_places(input, resp) ==
  IF input.shape # "ok" THEN Raise("TypeError")
  ELSE
    LET max_entry_fee == IF input.has_budget THEN input.budget ELSE 200
        budget_is_int == ~input.has_budget \/ input.budget_type = "int"
        limit         == IF input.has_limit THEN input.limit ELSE 6
    IN
    IF ~GOOGLE_API_KEY THEN
      IF ~budget_is_int THEN Raise("TypeError")
      ELSE Return("list", _mock_places(max_entry_fee))
    ELSE IF RemoteFailure(resp) # "" THEN Raise(RemoteFailure(resp))
    ELSE IF resp.results_kind = "null" THEN Raise("TypeError")
    ELSE
      LET seen == PySlice(ResultsOf(resp), limit)
      IN  IF \E i \in 1..Len(seen) : NameRaises(seen[i])
            THEN Raise("AttributeError")       \* None.lower()
          ELSE IF seen # <<>>
            THEN Return("list", [i \in 1..Len(seen) |-> PlaceEntry(seen[i])])
          ELSE IF ~budget_is_int THEN Raise("TypeError")
          ELSE Return("list", _mock_places(max_entry_fee))

\* The names the modelled source gives its places, as written by the source.
PlaceNames ==
  {<<"G","o","l","c","o","n","d","a"," ","F","o","r","t",","," ","H","y","d","e","r","a","b","a","d">>,
   <<"B","i","r","l","a"," ","M","a","n","d","i","r"," ","n","e","a","r"," ","G","o","l","c","o","n","d","a">>,
   <<"N","e","h","r","u"," ","Z","o","o">>,
   <<"I","n","o","r","b","i","t"," ","M","a","l","l">>,
   <<>>}

(***************************************************************************)
(* 4. TRAVEL / DISTANCE                                                    *)
(***************************************************************************)
_mock_travel ==
  [distance_km_x10 |-> 80, duration_mins |-> 20, cab_fare_inr |-> 130,
   mode |-> "Uber/Ola"]

\* The distances m (metres, m % 100 = 50) for which round(m / 1000, 1) goes up:
\* Python rounds the double nearest to m / 1000, which lies above or below
\* the decimal tie.  Tabulated for 0 <= m < 1000 and 10000 <= m < 11000.
TiesRoundedUp == {50, 450, 550, 650, 750, 10050, 10150, 10550, 10650, 10750}

\* round(metres / 1000, 1), in tenths of a kilometre.
round_km_x10(metres) ==
  IF metres % 100 = 50
    THEN IF metres \in TiesRoundedUp THEN metres \div 100 + 1
         ELSE metres \div 100
    ELSE (metres + 50) \div 100

\* Mutant: the fare of the rounded distance.
_estimate_cab_fare_rounded(metres) ==
  (50 * 10 + round_km_x10(metres) * 12) \div 10

\* int(50 + km * 12) for km = metres / 1000.  Python computes it in doubles;
\* the result is the exact floor for every distance of the model, because
\* metres / 1000 is exact when 12 * metres is a multiple of 1000 and is
\* otherwise at least 0.004 away from an integer.
_estimate_cab_fare(metres) == (50 * 1000 + metres * 12) \div 1000

\* The first exception of the try block for a decoded response, "" when the
\* block reaches its return.
TravelTryFailure(resp) ==
  CASE resp.rows_kind = "absent"        -> "KeyError"    \* data["rows"]
    [] resp.rows_kind = "null"          -> "TypeError"   \* None[0]
    [] resp.rows_kind = "empty"         -> "IndexError"  \* [][0]
    [] resp.elements_kind = "absent"    -> "KeyError"    \* row["elements"]
    [] resp.elements_kind = "null"      -> "TypeError"
    [] resp.elements_kind = "empty"     -> "IndexError"
    [] resp.distance_kind = "absent"    -> "KeyError"    \* element["distance"]
    [] resp.distance_kind = "not_object" -> "TypeError"  \* 5["value"]
    [] resp.distance_kind = "no_value"  -> "KeyError"    \* {}["value"]
    [] resp.distance_kind = "bad_value" -> "TypeError"   \* "x" / 1000
    [] resp.duration_kind = "absent"    -> "KeyError"
    [] resp.duration_kind = "not_object" -> "TypeError"
    [] resp.duration_kind = "no_value"  -> "KeyError"
    [] resp.duration_kind = "bad_value" -> "TypeError"   \* "x" // 60
    [] OTHER -> ""

\* Mutant: except KeyError alone.
TravelExceptCatches_KeyError(exc) == exc = "KeyError"

\* except (KeyError, IndexError)
TravelExceptCatches(exc) == exc \in {"KeyError", "IndexError"}

get_travel_info(input, resp) ==
  IF input.shape # "ok" THEN Raise("TypeError")
  ELSE IF ~GOOGLE_API_KEY THEN Return("dict", _mock_travel)
  ELSE IF resp.status = "timeout" THEN Raise("TimeoutException")
  ELSE IF resp.status = "undecodable" THEN Raise("JSONDecodeError")
  ELSE IF resp.status = "not_object" THEN Raise("TypeError")  \* [..]["rows"]
  ELSE IF TravelTryFailure(resp) # "" THEN
    IF TravelExceptCatches(TravelTryFailure(resp))
      THEN Return("dict", _mock_travel)
      ELSE Raise(TravelTryFailure(resp))
  ELSE
    Return("dict",
           [distance_km_x10 |-> round_km_x10(resp.distance_value),
            duration_mins   |-> resp.duration_value \div 60,
            cab_fare_inr    |-> _estimate_cab_fare(resp.distance_value),
            mode            |-> "Uber/Ola"])

(***************************************************************************)
(* TOOL EXECUTOR                                                           *)
(***************************************************************************)
\* The exception classes the model raises; all derive from Exception.
ExceptionClasses ==
  {"TypeError", "AttributeError", "KeyError", "IndexError",
   "TimeoutException", "JSONDecodeError"}

\* Mutant: the travel branch compares names without regard to case.
Route_IgnoringCase(name) ==
  IF name = "search_restaurants" THEN "search_restaurants"
  ELSE IF name = "search_movies" THEN "search_movies"
  ELSE IF name = "search_places" THEN "search_places"
  ELSE IF name \in {"get_travel_info", "GET_TRAVEL_INFO"} THEN "get_travel_info"
  ELSE ""

\* The if/elif chain of execute_tool: the function it calls, "" for `else'.
Route(name) ==
  IF name = "search_restaurants" THEN "search_restaurants"
  ELSE IF name = "search_movies" THEN "search_movies"
  ELSE IF name = "search_places" THEN "search_places"
  ELSE IF name = "get_travel_info" THEN "get_travel_info"
  ELSE ""

\* await <function>(**tool_input), or the else branch's error record.
RunBranch(name, input, resp) ==
  CASE Route(name) = "search_restaurants" -> search_restaurants(input, resp)
    [] Route(name) = "search_movies"      -> search_movies(input, resp)
    [] Route(name) = "search_places"      -> search_places(input, resp)
    [] Route(name) = "get_travel_info"    -> get_travel_info(input, resp)
    [] OTHER -> Return("dict", [error |-> "Unknown tool: " \o name])

\* Mutant: the clause of get_travel_info, except (KeyError, IndexError).
ExceptClauseCatches_LookupErrors(exc) == exc \in {"KeyError", "IndexError"}

\* except Exception
ExceptClauseCatches(exc) == exc \in ExceptionClasses

\* json.dumps: the string that encodes a list (a JSON array) or a dict (a
\* JSON object).  The string is kept as the kind of its top-level value and
\* the value it decodes to.
json_dumps(type, value) ==
  IF type = "list" THEN [json |-> "array", array |-> value]
  ELSE [json |-> "object", object |-> value]

\* str(e): the message of the exception; the model tells the messages apart
\* by the class of the exception.
str(exc) == "message of " \o exc

NoPayload == [json |-> "none"]

\* execute_tool, given what the branch it took did (r, of RunBranch).
execute_tool(name, r) ==
  IF r.kind = "return"
    THEN [invoked |-> Route(name), raised |-> FALSE,
          payload |-> json_dumps(r.type, r.value)]
  ELSE IF ExceptClauseCatches(r.exc)
    THEN [invoked |-> Route(name), raised |-> FALSE,
          payload |-> json_dumps("dict", [error |-> str(r.exc)])]
  ELSE [invoked |-> Route(name), raised |-> TRUE, payload |-> NoPayload]

(***************************************************************************)
(* Inputs of the model.                                                    *)
(***************************************************************************)
Budgets == {k * BudgetStep : k \in 0..MaxBudgetK}
FeeBudgets == {k * BudgetStep : k \in 0..MaxFeeBudgetK}
Limits == 0..MaxLimit

\* tool_input of the three search tools.  shape is "ok" for a mapping with
\* only known keywords, "unexpected_keyword" for a mapping with another
\* key, "not_a_mapping" for a value ** cannot unpack.  budget stands for
\* max_budget_per_person, max_ticket_price or max_entry_fee; budget_type
\* "str" is a budget given as a string.
SearchInput(shape, has_budget, budget_type, budget, has_limit, limit) ==
  [shape |-> shape, has_budget |-> has_budget, budget_type |-> budget_type,
   budget |-> budget, has_limit |-> has_limit, limit |-> limit]

SearchInputs(budgets) ==
  {SearchInput("ok", TRUE, "int", b, TRUE, l) : b \in budgets, l \in Limits}
  \cup {SearchInput("ok", TRUE, "int", b, FALSE, 0) : b \in budgets}
  \cup {SearchInput("ok", TRUE, "str", 0, FALSE, 0),
        SearchInput("ok", FALSE, "int", 0, FALSE, 0),
        SearchInput("unexpected_keyword", TRUE, "int", 0, FALSE, 0),
        SearchInput("not_a_mapping", FALSE, "int", 0, FALSE, 0)}

\* tool_input of get_travel_info: "ok" has origin and destination.
TravelInputs ==
  {[shape |-> s] :
     s \in {"ok", "missing_required", "unexpected_keyword", "not_a_mapping"}}

\* No request was sent: no key, or the call failed before the request.
NoRequest == [status |-> "no_request"]

FailedResponses ==
  {[status |-> s] : s \in {"timeout", "undecodable", "not_object"}}

\* A decoded JSON object with its list under "results" or "showtimes".
ListResponses(items, n) ==
  {[status |-> "object", results_kind |-> k, results |-> <<>>] :
     k \in {"absent", "null"}}
  \cup {[status |-> "object", results_kind |-> "list", results |-> xs] :
          xs \in SeqsUpTo(items, n)}

\* The places of a restaurant response: place_id is the position in the list.
RestaurantPlaces ==
  {[has_price_level |-> FALSE, price_level |-> 0]}
  \cup {[has_price_level |-> TRUE, price_level |-> l] : l \in 0..4}

RestaurantResponses ==
  LET Numbered(xs) ==
        [i \in 1..Len(xs) |->
           [place_id |-> i, has_price_level |-> xs[i].has_price_level,
            price_level |-> xs[i].price_level]]
      R == ListResponses(RestaurantPlaces, MaxRestaurants)
  IN  {[status |-> r.status, results_kind |-> r.results_kind,
        results |-> Numbered(r.results)] : r \in R}

Showtimes ==
  {[has_name |-> FALSE, name |-> ""], [has_name |-> TRUE, name |-> "Movie"]}

MovieResponses == ListResponses(Showtimes, MaxShowtimes)

AttractionPlaces ==
  {[name_kind |-> "absent", name |-> <<>>], [name_kind |-> "null", name |-> <<>>]}
  \cup {[name_kind |-> "str", name |-> n] :
          n \in UNION {{s, lower(s), upper(s)} : s \in PlaceNames}}

PlaceResponses == ListResponses(AttractionPlaces, MaxAttractions)

Metres == {b + i : b \in {0, 10000}, i \in 0..MaxMetresOffset}
Durations == {0, 59, 60, 119, 605}

TravelResponse(rows, elements, dk, dv, uk, uv) ==
  [status |-> "object", rows_kind |-> rows, elements_kind |-> elements,
   distance_kind |-> dk, distance_value |-> dv,
   duration_kind |-> uk, duration_value |-> uv]

FieldFaults == {"absent", "not_object", "no_value", "bad_value"}

TravelResponses ==
  {TravelResponse(k, "absent", "absent", 0, "absent", 0) :
     k \in {"absent", "null", "empty"}}
  \cup {TravelResponse("list", k, "absent", 0, "absent", 0) :
          k \in {"absent", "null", "empty"}}
  \cup {TravelResponse("list", "list", k, 0, "ok", 60) : k \in FieldFaults}
  \cup {TravelResponse("list", "list", "ok", 5000, k, 0) : k \in FieldFaults}
  \cup {TravelResponse("list", "list", "ok", m, "ok", d) :
          m \in Metres, d \in Durations}

(***************************************************************************)
(* The state machine: one action per branch of the dispatcher.             *)
(***************************************************************************)
Init ==
  /\ GOOGLE_API_KEY \in BOOLEAN
  /\ SERPAPI_KEY \in BOOLEAN
  /\ pc = "idle"
  /\ tool_name = ""
  /\ tool_input = [shape |-> "none"]
  /\ response = NoRequest
  /\ invoked = ""
  /\ outcome = [kind |-> "none"]
  /\ raised = FALSE
  /\ payload = NoPayload

\* One call of execute_tool(name, input) answered by resp.
Execute(name, input, resp) ==
  /\ pc' = "returned"
  /\ tool_name' = name
  /\ tool_input' = input
  /\ response' = resp
  /\ outcome' = RunBranch(name, input, resp)
  /\ invoked' = execute_tool(name, outcome').invoked
  /\ raised' = execute_tool(name, outcome').raised
  /\ payload' = execute_tool(name, outcome').payload
  /\ UNCHANGED <<GOOGLE_API_KEY, SERPAPI_KEY>>

\* The answers a call can get: a request is sent only with the key and with
\* arguments the function accepts.
Answers(key, bound, responses) ==
  IF key /\ bound THEN FailedResponses \cup responses ELSE {NoRequest}

ExecuteSearchRestaurants ==
  /\ pc = "idle"
  /\ \E input \in SearchInputs(Budgets) :
       \E resp \in Answers(GOOGLE_API_KEY, input.shape = "ok" /\ input.has_budget,
                           RestaurantResponses) :
         Execute("search_restaurants", input, resp)

ExecuteSearchMovies ==
  /\ pc = "idle"
  /\ \E input \in SearchInputs(Budgets) :
       \E resp \in Answers(SERPAPI_KEY, input.shape = "ok", MovieResponses) :
         Execute("search_movies", input, resp)

ExecuteSearchPlaces ==
  /\ pc = "idle"
  /\ \E input \in SearchInputs(FeeBudgets) :
       \E resp \in Answers(GOOGLE_API_KEY, input.shape = "ok", PlaceResponses) :
         Execute("search_places", input, resp)

ExecuteGetTravelInfo ==
  /\ pc = "idle"
  /\ \E input \in TravelInputs :
       \E resp \in Answers(GOOGLE_API_KEY, input.shape = "ok", TravelResponses) :
         Execute("get_travel_info", input, resp)

\* Names that are none of the four identifiers.
OtherNames ==
  {"", "get_weather", "Search_Restaurants", "search_movie", "search_places ",
   "GET_TRAVEL_INFO"}

ExecuteUnknownTool ==
  /\ pc = "idle"
  /\ \E name \in OtherNames : \E input \in TravelInputs :
       Execute(name, input, NoRequest)

\* The caller has taken the payload; nothing of the call is kept.
Forget ==
  /\ pc = "returned"
  /\ pc' = "idle"
  /\ tool_name' = ""
  /\ tool_input' = [shape |-> "none"]
  /\ response' = NoRequest
  /\ invoked' = ""
  /\ outcome' = [kind |-> "none"]
  /\ raised' = FALSE
  /\ payload' = NoPayload
  /\ UNCHANGED <<GOOGLE_API_KEY, SERPAPI_KEY>>

Next ==
  \/ ExecuteSearchRestaurants
  \/ ExecuteSearchMovies
  \/ ExecuteSearchPlaces
  \/ ExecuteGetTravelInfo
  \/ ExecuteUnknownTool
  \/ Forget

Spec == Init /\ [][Next]_vars

(***************************************************************************)
(* Properties.                                                             *)
(***************************************************************************)
Returned(name) == pc = "returned" /\ tool_name = name

\* The arguments bind, and a budget among them is an integer.
CallIsWellTyped ==
  /\ tool_input.shape = "ok"
  /\ \/ tool_name = "get_travel_info"
     \/ tool_input.has_budget => tool_input.budget_type = "int"

\* The budget and the limit the search function works with.
BudgetOr(default) ==
  IF tool_input.has_budget THEN tool_input.budget ELSE default
LimitOr(default) ==
  IF tool_input.has_limit THEN tool_input.limit ELSE default

RequestSent == response.status # "no_request"

PayloadIsErrorRecord ==
  /\ payload.json = "object"
  /\ DOMAIN payload.object = {"error"}

PayloadIsList(xs) == payload.json = "array" /\ payload.array = xs

PayloadIsHeuristicTravel ==
  /\ payload.json = "object"
  /\ payload.object =
       [distance_km_x10 |-> 80, duration_mins |-> 20, cab_fare_inr |-> 130,
        mode |-> "Uber/Ola"]

\* The mock or heuristic data of the tool that was called.
PayloadIsMockData ==
  CASE tool_name = "search_restaurants" ->
         PayloadIsList(_mock_restaurants(BudgetOr(0)))
    [] tool_name = "search_movies" -> PayloadIsList(_mock_movies(BudgetOr(400)))
    [] tool_name = "search_places" -> PayloadIsList(_mock_places(BudgetOr(200)))
    [] tool_name = "get_travel_info" -> PayloadIsHeuristicTravel
    [] OTHER -> FALSE

\* C1: execute_tool never raises.  For every tool name, every argument
\* mapping (missing, extra or wrongly typed arguments included) and every
\* outcome of the tool function, it returns one string: the encoding of the
\* value the function returned, or of an error record {"error": <message>}
\* when the function raised.
C1_NeverRaises ==
  pc = "returned" =>
    /\ ~raised
    /\ outcome.kind = "raise" => PayloadIsErrorRecord
    /\ outcome.kind = "return" =>
         \/ outcome.type = "list" /\ PayloadIsList(outcome.value)
         \/ /\ outcome.type = "dict"
            /\ payload.json = "object"
            /\ payload.object = outcome.value

\* C1 witness: a call with an unexpected keyword argument made the tool
\* function raise and the dispatcher answered with an error record.
C1_Witness ==
  /\ Returned("search_movies")
  /\ tool_input.shape = "unexpected_keyword"
  /\ outcome.kind = "raise"
  /\ ~raised
  /\ PayloadIsErrorRecord

\* The request or the decoding of its body failed: timeout, network error,
\* undecodable body.
RemoteCallFailed == response.status \in {"timeout", "undecodable"}

\* The body decoded, and a field of it has the wrong type or is missing.
ResponseIsMalformed ==
  \/ response.status = "not_object"
  \/ /\ response.status = "object"
     /\ IF tool_name = "get_travel_info"
          THEN TravelTryFailure(response) # ""
          ELSE response.results_kind = "null"

\* The body decoded to an object that lacks a field or holds an empty list.
ResponseLacksData ==
  /\ response.status = "object"
  /\ IF tool_name = "get_travel_info"
       THEN \/ response.rows_kind \in {"absent", "empty"}
            \/ /\ response.rows_kind = "list"
               /\ \/ response.elements_kind \in {"absent", "empty"}
                  \/ /\ response.elements_kind = "list"
                     /\ \/ response.distance_kind \in {"absent", "no_value"}
                        \/ /\ response.distance_kind = "ok"
                           /\ response.duration_kind \in {"absent", "no_value"}
       ELSE \/ response.results_kind = "absent"
            \/ response.results_kind = "list" /\ response.results = <<>>

C3_TravelFallsBackOnAnyFault ==
  (Returned("get_travel_info") /\ tool_input.shape = "ok"
     /\ (~GOOGLE_API_KEY
           \/ (response.status = "object" /\ TravelTryFailure(response) # "")))
    => /\ outcome.kind = "return"
       /\ outcome.value =
            [distance_km_x10 |-> 80, duration_mins |-> 20,
             cab_fare_inr |-> 130, mode |-> "Uber/Ola"]

\* An entry built from a place of the live source carries its price level.
IsLiveRestaurant(e) == "price_level" \in DOMAIN e

\* C4 (as stated): every restaurant returned without a credential costs at
\* most 0.5 * B and at most 4 are returned; every restaurant returned with
\* a credential costs at most 0.45 * B.
C4_BudgetBoundsByCredential ==
  (Returned("search_restaurants") /\ outcome.kind = "return") =>
    LET B == tool_input.budget
        xs == outcome.value
    IN  IF GOOGLE_API_KEY
          THEN \A i \in 1..Len(xs) : 100 * xs[i].estimated_cost <= 45 * B
          ELSE /\ Len(xs) <= 4
               /\ \A i \in 1..Len(xs) : 2 * xs[i].estimated_cost <= B

\* C4 (amended): every mock restaurant returned (without a credential, or
\* with one when no live place survives) costs at most 0.5 * B and at most
\* 4 are returned; every restaurant built from a live place costs at most
\* 0.45 * B, its cost mapped from the price level by {1:150, 2:350, 3:600,
\* 4:1200} and 350 when the level is absent or another value.
C4_BudgetBoundsBySource ==
  (Returned("search_restaurants") /\ outcome.kind = "return") =>
    LET B == tool_input.budget
        xs == outcome.value
    IN  /\ ~GOOGLE_API_KEY => \A i \in 1..Len(xs) : ~IsLiveRestaurant(xs[i])
        /\ \A i \in 1..Len(xs) :
             IF IsLiveRestaurant(xs[i])
               THEN LET p == response.results[xs[i].place_id]
                        c == xs[i].estimated_cost
                    IN  /\ 100 * c <= 45 * B
                        /\ ~p.has_price_level => c = 350
                        /\ p.has_price_level =>
                             \/ p.price_level = 1 /\ c = 150
                             \/ p.price_level = 2 /\ c = 350
                             \/ p.price_level = 3 /\ c = 600
                             \/ p.price_level = 4 /\ c = 1200
                             \/ p.price_level \notin 1..4 /\ c = 350
               ELSE /\ Len(xs) <= 4
                    /\ 2 * xs[i].estimated_cost <= B

\* C4 witness: with a credential, a live place was returned and another
\* was dropped as too expensive.
C4_Witness ==
  /\ Returned("search_restaurants")
  /\ GOOGLE_API_KEY
  /\ outcome.kind = "return"
  /\ outcome.value # <<>>
  /\ IsLiveRestaurant(outcome.value[1])
  /\ Len(outcome.value) < Len(PySlice(response.results, LimitOr(5)))

\* The places of the response that pass the 45% filter, in source order.
Survivors ==
  LET Affordable(p) ==
        100 * cost_map_get(price_level_of(p)) <= 45 * tool_input.budget
  IN  SelectSeq(ResultsOf(response), Affordable)

\* C5: on the live path of search_restaurants the budget filter is applied
\* before the cap: if at least one place of the response survives the 45%
\* filter, the result is the first `limit' survivors in source order
\* (min(limit, number of survivors) entries); only when no place survives
\* is the mock list returned.
C5_FilterBeforeCap ==
  (Returned("search_restaurants") /\ GOOGLE_API_KEY /\ CallIsWellTyped
     /\ response.status = "object" /\ response.results_kind # "null"
     /\ LimitOr(5) >= 1)
    => /\ outcome.kind = "return"
       /\ IF Survivors # <<>>
            THEN /\ Len(outcome.value) = Min(LimitOr(5), Len(Survivors))
                 /\ \A i \in 1..Len(outcome.value) :
                      outcome.value[i] = RestaurantEntry(Survivors[i])
            ELSE outcome.value = _mock_restaurants(tool_input.budget)

\* C6: movies are filtered by max ticket price: on every path (mock, live,
\* live falling back to mock) every returned movie has ticket_price <= B; on
\* the live path the ticket_price is 350 if B >= 400, 220 if B >= 250, else
\* 150.
C6_MoviesWithinTicketPrice ==
  (Returned("search_movies") /\ outcome.kind = "return") =>
    LET B == BudgetOr(400)
        xs == outcome.value
        live == SERPAPI_KEY /\ PySlice(ResultsOf(response), LimitOr(5)) # <<>>
    IN  \A i \in 1..Len(xs) :
          /\ xs[i].ticket_price <= B
          /\ live => \/ B >= 400 /\ xs[i].ticket_price = 350
                     \/ B < 400 /\ B >= 250 /\ xs[i].ticket_price = 220
                     \/ B < 250 /\ xs[i].ticket_price = 150

\* The position in the mock catalog of the place with this name, 0 if none.
CatalogIndex(name) ==
  IF \E j \in 1..Len(all_places) : all_places[j].name = name
    THEN CHOOSE j \in 1..Len(all_places) : all_places[j].name = name
    ELSE 0

\* C7: without a credential search_places returns the first at most 4
\* entries, in catalog order, of the 6-item mock catalog whose entry_fee is
\* at most 0.15 * B; every place returned has entry_fee <= 0.15 * B and no
\* more than 4 are returned.
C7_MockPlacesWithinBudget ==
  (Returned("search_places") /\ ~GOOGLE_API_KEY /\ outcome.kind = "return") =>
    LET B == BudgetOr(200)
        xs == outcome.value
        at(i) == CatalogIndex(xs[i].name)
    IN  /\ Len(all_places) = 6
        /\ Len(xs) <= 4
        /\ \A i \in 1..Len(xs) :
             /\ at(i) # 0
             /\ xs[i] = all_places[at(i)]
             /\ 100 * xs[i].entry_fee <= 15 * B
        /\ \A i \in 1..(Len(xs) - 1) : at(i) < at(i + 1)
        /\ \A j \in 1..Len(all_places) :
             (/\ 100 * all_places[j].entry_fee <= 15 * B
              /\ Len(xs) < 4 \/ j < at(Len(xs)))
               => \E i \in 1..Len(xs) : at(i) = j

\* C7 witness: without a credential the cap cut the list: 4 places were
\* returned and a later catalog entry within the budget was left out.
C7_Witness ==
  /\ Returned("search_places")
  /\ ~GOOGLE_API_KEY
  /\ outcome.kind = "return"
  /\ Len(outcome.value) = 4
  /\ \E j \in 1..Len(all_places) :
       /\ 100 * all_places[j].entry_fee <= 15 * BudgetOr(200)
       /\ \A i \in 1..4 : outcome.value[i].name # all_places[j].name
  /\ \E j \in 1..Len(all_places) :
       100 * all_places[j].entry_fee > 15 * BudgetOr(200)

\* C8: execute_tool routes by exact name match: a name equal to one of the
\* four identifiers invokes that function and no other; for every other
\* name no tool function is invoked and the payload encodes exactly
\* {"error": "Unknown tool: <name>"} with the given name.
C8_RoutesByExactName ==
  pc = "returned" =>
    IF tool_name \in {"search_restaurants", "search_movies", "search_places",
                      "get_travel_info"}
      THEN invoked = tool_name
      ELSE /\ invoked = ""
           /\ ~raised
           /\ payload.json = "object"
           /\ payload.object = [error |-> "Unknown tool: " \o tool_name]

\* C8 witness: a name that differs from an identifier only in letter case
\* was answered with the unknown-tool record.
C8_Witness ==
  /\ Returned("GET_TRAVEL_INFO")
  /\ tool_input.shape = "ok"
  /\ invoked = ""
  /\ payload.object = [error |-> "Unknown tool: GET_TRAVEL_INFO"]

\* The fee the lookup is specified to give for a name: that of the first
\* table key contained in the lower-cased name, 50 when none is.
SpecifiedFee(name) ==
  LET hit(k) == Contains(lower(name), fee_map[k].key)
  IN  IF \E k \in 1..Len(fee_map) : hit(k)
        THEN fee_map[CHOOSE k \in 1..Len(fee_map) :
                       hit(k) /\ \A j \in 1..(k - 1) : ~hit(j)].fee
        ELSE 50

\* C9: the entry fee of every live place result is the case-insensitive
\* substring lookup of the place name in the 11-entry table (first key in
\* table order, 50 when none), and the lookup never fails for any place
\* record of the source, including one with no usable name.
C9_EntryFeeLookupNeverFails ==
  (Returned("search_places") /\ GOOGLE_API_KEY /\ tool_input.shape = "ok"
     /\ response.status = "object" /\ response.results_kind = "list"
     /\ PySlice(response.results, LimitOr(6)) # <<>>)
    => LET seen == PySlice(response.results, LimitOr(6))
       IN  /\ Len(fee_map) = 11
           /\ outcome.kind = "return"
           /\ Len(outcome.value) = Len(seen)
           /\ \A i \in 1..Len(seen) :
                outcome.value[i].entry_fee =
                  IF seen[i].name_kind = "str" THEN SpecifiedFee(seen[i].name)
                  ELSE 50

\* The response is well formed: distance and duration are numbers.
TravelResponseIsWellFormed ==
  /\ response.status = "object"
  /\ response.rows_kind = "list"
  /\ response.elements_kind = "list"
  /\ response.distance_kind = "ok"
  /\ response.duration_kind = "ok"

\* C10 (as stated): on the live path, for a well-formed response, the
\* cab_fare_inr of the record is 50 + 12 * distance_km truncated, for the
\* distance_km of the same record (kilometres rounded to one decimal).
C10_FareOfReportedDistance ==
  (Returned("get_travel_info") /\ GOOGLE_API_KEY /\ tool_input.shape = "ok"
     /\ TravelResponseIsWellFormed)
    => /\ outcome.kind = "return"
       /\ outcome.value.cab_fare_inr =
            (50 * 10 + 12 * outcome.value.distance_km_x10) \div 10

\* C10 (amended): on the live path, for a well-formed response with a
\* distance of m metres, cab_fare_inr is 50 + 12 * m / 1000 truncated: the
\* fare of the distance before it is rounded.  The distance_km of the
\* record is m / 1000 rounded to one decimal, and 10.0 km yields fare 170.
C10_FareOfExactDistance ==
  (Returned("get_travel_info") /\ GOOGLE_API_KEY /\ tool_input.shape = "ok"
     /\ TravelResponseIsWellFormed)
    => LET m == response.distance_value
           f == outcome.value.cab_fare_inr
           d == outcome.value.distance_km_x10
       IN  /\ outcome.kind = "return"
           /\ 1000 * f <= 50 * 1000 + 12 * m
           /\ 50 * 1000 + 12 * m < 1000 * (f + 1)
           /\ 100 * d - 50 <= m
           /\ m <= 100 * d + 50
           /\ m = 10000 => f = 170 /\ d = 100

\* C10 witness: a well-formed response whose fare differs from the fare of
\* the reported (rounded) distance.
C10_Witness ==
  /\ Returned("get_travel_info")
  /\ GOOGLE_API_KEY
  /\ TravelResponseIsWellFormed
  /\ outcome.kind = "return"
  /\ outcome.value.distance_km_x10 = 101
  /\ outcome.value.cab_fare_inr = 170

====
